---------------------------- MODULE Spec2Model ----------------------------
(***************************************************************************)
(* A model of toolbox.py: the line scanner (read_toolbox_file), the event  *)
(* classifier (iterparse), the record assembler (records), the block       *)
(* grouper (field_groups), the normalizer (normalize_record) and the token *)
(* aligner (align_fields, _collect_aligned_tokens).                        *)
(*                                                                         *)
(* Strings are sequences of one-character strings, offsets are 0-based as  *)
(* in Python.  An optional value is a sequence of length 0 (None) or 1.    *)
(***************************************************************************)
EXTENDS Integers, Sequences, FiniteSets, TLC

VARIABLES
    \* read_toolbox_file
    lines,          \* the lines of the file f, terminators included
    strip,          \* the strip argument
    lpos,           \* number of lines read so far
    mkr,            \* the pending marker (optional)
    val_lines,      \* the pending value segments
    sstatus,        \* "none" (pairs is a given list) | "running" | "done"
    \* the pair sequence: the pairs read_toolbox_file has yielded so far, or
    \* the list handed to iterparse / records / align_fields
    pairs,
    \* align_fields
    alignments,     \* the alignments argument (optional map source -> target)
    errors,         \* the errors argument
    apos,           \* number of pairs processed so far
    prev,           \* marker -> optional tokenization
    aligned_pairs,  \* the result list
    astatus,        \* "none" (not called) | "start" | "running" | "returned" | "raised"
    raisedAt,       \* index of the pair whose processing raised (0: none)
    emitIdx,        \* for each element of aligned_pairs, the index of its pair
    \* iterparse
    keys,           \* the keys argument
    ipos,           \* number of pairs read so far
    data,           \* the pending data batch
    events,         \* the events yielded so far
    istatus,        \* "none" (not called) | "running" | "done"
    \* records
    record_marker,  \* the record_marker argument, then the local it is bound to
    context_keys,   \* the context_keys argument
    heap,           \* the dict objects created so far, by reference
    taken,          \* number of events records has consumed
    recs,           \* the Records yielded so far: (reference to context, data)
    rstatus,        \* "none" (not called) | "start" | "running" | "done" | "raised"
    \* field_groups and normalize_record
    aligned_fields, \* the aligned_fields argument
    \* field_groups
    gpos,           \* number of pairs read so far
    group,          \* the block being built
    seen,           \* the markers of the block being built
    blocks,         \* the blocks yielded so far
    gstatus,        \* "none" (not called) | "running" | "done"
    \* normalize_record
    nstrip,         \* the strip argument
    npos,           \* number of pairs read so far
    field_data,     \* the markers in first-seen order, each with its list of values
    maxlens,        \* position -> longest value of an aligned marker there
    slot,           \* the local i of the last iteration (optional)
    normalized,     \* the list returned
    nstatus         \* "none" (not called) | "running" | "returned"

scanVars  == <<lines, strip, lpos, mkr, val_lines, sstatus>>
alignVars == <<alignments, errors, apos, prev, aligned_pairs, astatus, raisedAt, emitIdx>>
iterVars  == <<keys, ipos, data, events, istatus>>
recVars   == <<record_marker, context_keys, heap, taken, recs, rstatus>>
groupVars == <<gpos, group, seen, blocks, gstatus>>
normVars  == <<nstrip, npos, field_data, maxlens, slot, normalized, nstatus>>
toolVars  == <<aligned_fields, groupVars, normVars>>
vars      == <<scanVars, pairs, alignVars, iterVars, recVars, toolVars>>

-----------------------------------------------------------------------------
(* Bounds *)

MaxLen == 3

-----------------------------------------------------------------------------
(* Optional values and strings *)

None == <<>>
Some(v) == <<v>>
IsNone(o) == Len(o) = 0
Get(o) == o[1]

BS == "\\"
SP == " "
NL == "\n"
TAB == "\t"

\* Python's \s, restricted to the characters of the model
IsSpace(c) == c \in {SP, NL, TAB}

RECURSIVE RStrip(_)
\* str.rstrip()
RStrip(s) ==
    IF Len(s) > 0 /\ IsSpace(s[Len(s)]) THEN RStrip(SubSeq(s, 1, Len(s) - 1)) ELSE s

RECURSIVE Concat(_)
\* ''.join(list of strings)
Concat(ss) == IF ss = <<>> THEN <<>> ELSE Head(ss) \o Concat(Tail(ss))

RECURSIVE StrsOfLen(_, _)
StrsOfLen(A, n) ==
    IF n = 0 THEN {<<>>}
    ELSE {Append(s, c) : s \in StrsOfLen(A, n - 1), c \in A}

StrsUpTo(A, n) == UNION {StrsOfLen(A, k) : k \in 0..n}

\* the image of a sequence
Range(s) == {s[i] : i \in 1..Len(s)}

\* markers
Mk(c) == <<BS, c>>
T == Mk("t")
M == Mk("m")
G == Mk("g")
F == Mk("f")

-----------------------------------------------------------------------------
(* default_tokenizer = re.compile(r'\S+\s*'), used with finditer *)

RECURSIVE RunEnd(_, _, _)
\* the last index of the run of characters of kind sp (whitespace or not)
\* that starts at index i; i - 1 when the run is empty
RunEnd(val, i, sp) ==
    IF i <= Len(val) /\ (IsSpace(val[i]) = sp) THEN RunEnd(val, i + 1, sp) ELSE i - 1

RECURSIVE TokFrom(_, _)
\* the matches of \S+\s* in val from index i on (1-based); a match is kept
\* as its 0-based start offset and its text group(0)
TokFrom(val, i) ==
    IF i > Len(val) THEN <<>>
    ELSE IF IsSpace(val[i]) THEN TokFrom(val, i + 1)
    ELSE LET j == RunEnd(val, i, FALSE)
             k == RunEnd(val, j + 1, TRUE)
         IN  <<[start |-> i - 1, text |-> SubSeq(val, i, k)]>> \o TokFrom(val, k + 1)

Tokenize(val) == TokFrom(val, 1)

TokEnd(t) == t.start + Len(t.text)

-----------------------------------------------------------------------------
(* _collect_aligned_tokens *)

DefaultErrors == "strict"

RECURSIVE Take_Inclusive(_, _, _, _, _)
\* Take with the comparison start <= t_end
Take_Inclusive(src, remaining, t_end, last_end, grp) ==
    IF src # <<>> /\ (remaining = 0 \/ Head(src).start <= t_end)
    THEN LET s == Head(src)
             s_tok == RStrip(s.text)
         IN  Take_Inclusive(Tail(src), remaining, t_end, s.start + Len(s_tok),
                            Append(grp, s_tok))
    ELSE [src |-> src, last_end |-> last_end, grp |-> grp]

RECURSIVE Take(_, _, _, _, _)
\* the while loop: pop source tokens from the front while the queue is not
\* empty and this is the last target or the token starts before t_end
Take(src, remaining, t_end, last_end, grp) ==
    IF src # <<>> /\ (remaining = 0 \/ Head(src).start < t_end)
    THEN LET s == Head(src)
             s_tok == RStrip(s.text)
         IN  Take(Tail(src), remaining, t_end, s.start + Len(s_tok), Append(grp, s_tok))
    ELSE [src |-> src, last_end |-> last_end, grp |-> grp]

RECURSIVE Collect(_, _, _, _, _, _)
\* the for loop over the target tokens, from target index i (1-based)
Collect(src, tgt, i, last_end, aligned, errs) ==
    IF i > Len(tgt) THEN [raised |-> FALSE, aligned |-> aligned]
    ELSE LET t == tgt[i]
         IN  IF last_end > t.start /\ errs = "strict"
             THEN [raised |-> TRUE, aligned |-> aligned]
             ELSE LET r == Take(src, Len(tgt) - i, TokEnd(t), last_end, <<>>)
                  IN  Collect(r.src, tgt, i + 1, r.last_end,
                              Append(aligned, [tgt |-> Some(RStrip(t.text)),
                                               src |-> Some(r.grp)]),
                              errs)

CollectAlignedTokens(src, tgt, errs) == Collect(src, tgt, 1, -1, <<>>, errs)

-----------------------------------------------------------------------------
(* read_toolbox_file *)

Pair(m, v) == [mkr |-> m, val |-> v]

\* the index of the first line terminator of s at or after i; 0 if none
RECURSIVE FirstNL(_, _)
FirstNL(s, i) ==
    IF i > Len(s) THEN 0 ELSE IF s[i] = NL THEN i ELSE FirstNL(s, i + 1)

\* the group val of ` (?P<val>.*\n?)$` on the text after the separator:
\* .* runs to the first terminator, \n? takes it, and $ holds at the end of
\* the line or before a last terminator.  None when there is no match.
ValGroup(rem) ==
    LET q == FirstNL(rem, 1)
    IN  IF q = 0 \/ q = Len(rem) THEN Some(rem)
        ELSE IF q = Len(rem) - 1 /\ rem[Len(rem)] = NL THEN Some(SubSeq(rem, 1, q))
        ELSE None

\* toolbox_line_re.match(line): None, or the groups mkr and val
LineMatch(line) ==
    IF Len(line) < 2 \/ line[1] # BS THEN None
    ELSE LET n == RunEnd(line, 2, FALSE)
         IN  IF n < 2 THEN None
             ELSE IF n = Len(line) \/ (n + 1 = Len(line) /\ line[n + 1] = NL)
             THEN Some([mkr |-> SubSeq(line, 1, n), val |-> None])
             ELSE IF line[n + 1] = SP
             THEN LET v == ValGroup(SubSeq(line, n + 2, Len(line)))
                  IN  IF IsNone(v) THEN None
                      ELSE Some([mkr |-> SubSeq(line, 1, n), val |-> v])
             ELSE None

\* OrEmpty keeping the segment of the marker line only
OrEmpty_First(segs) == <<IF IsNone(segs[1]) THEN <<>> ELSE Get(segs[1])>>

\* [s or '' for s in val_lines]
OrEmpty(segs) == [i \in 1..Len(segs) |-> IF IsNone(segs[i]) THEN <<>> ELSE Get(segs[i])]

\* make_val stripping whatever strip says
make_val_Stripped(segs, st) ==
    IF segs = <<None>> THEN None ELSE Some(RStrip(Concat(OrEmpty(segs))))

\* make_val with '' for a lone None segment
make_val_Empty(segs, st) ==
    LET val == Concat(OrEmpty(segs))
    IN  Some(IF st THEN RStrip(val) ELSE val)

make_val(segs, st) ==
    IF segs = <<None>> THEN None
    ELSE LET val == Concat(OrEmpty(segs))
         IN  Some(IF st THEN RStrip(val) ELSE val)

\* A generator runs only while its consumer asks for the next item: a plain
\* iteration always does, align_fields does at the head of its loop.
ScanDemand == astatus = "none" \/ (astatus = "running" /\ apos = Len(pairs))

\* the body of `for line in f`
ScanLine ==
    /\ sstatus = "running"
    /\ ScanDemand
    /\ lpos < Len(lines)
    /\ LET line == lines[lpos + 1]
           mkr_match == LineMatch(line)
       IN  /\ lpos' = lpos + 1
           /\ IF ~IsNone(mkr_match)
              THEN /\ pairs' = IF ~IsNone(mkr)
                               THEN Append(pairs, Pair(Get(mkr), make_val(val_lines, strip)))
                               ELSE pairs
                   /\ mkr' = Some(Get(mkr_match).mkr)
                   /\ val_lines' = <<Get(mkr_match).val>>
              ELSE /\ val_lines' = Append(val_lines, Some(line))
                   /\ UNCHANGED <<mkr, pairs>>
    /\ UNCHANGED <<toolVars, lines, strip, sstatus, alignVars, iterVars, recVars>>

\* after the loop: yield the final pair
ScanEnd ==
    /\ sstatus = "running"
    /\ ScanDemand
    /\ lpos = Len(lines)
    /\ pairs' = IF ~IsNone(mkr)
                THEN Append(pairs, Pair(Get(mkr), make_val(val_lines, strip)))
                ELSE pairs
    /\ sstatus' = "done"
    /\ UNCHANGED <<toolVars, lines, strip, lpos, mkr, val_lines, alignVars, iterVars, recVars>>

-----------------------------------------------------------------------------
(* iterparse *)

RECURSIVE FirstBS(_, _)
\* the index of the first backslash of k at or after i; 0 if none
FirstBS(k, i) ==
    IF i > Len(k) THEN 0 ELSE IF k[i] = BS THEN i ELSE FirstBS(k, i + 1)

\* re.sub(r'\\(.*)', r'\<sign>\1', k)
Variant(k, sign) ==
    LET j == FirstBS(k, 1)
    IN  IF j = 0 THEN k
        ELSE SubSeq(k, 1, j - 1) \o <<BS, sign>> \o SubSeq(k, j + 1, Len(k))

start_keys(ks) == {Variant(k, "+") : k \in ks}

end_keys(ks) == {Variant(k, "-") : k \in ks}

\* all_keys without the block-start and block-end forms
all_keys_Plain(ks) == ks

all_keys(ks) == ks \cup start_keys(ks) \cup end_keys(ks)

\* Unprefixed leaving the block form in place
Unprefixed_Keep(m) == m

\* '\\{}'.format(mkr[2:])
Unprefixed(m) == <<BS>> \o SubSeq(m, 3, Len(m))

Event(e, r) == [event |-> e, result |-> r]

\* Flush yielding the batch even when it is empty
Flush_Always(batch) == <<Event("data", batch)>>

\* if len(data) > 0: yield ('data', data)
Flush(batch) == IF Len(batch) > 0 THEN <<Event("data", batch)>> ELSE <<>>

\* the if / elif chain on a marker of all_keys
Classify(p, ks) ==
    IF p.mkr \in ks THEN Event("key", p)
    ELSE IF p.mkr \in start_keys(ks) THEN Event("start", Pair(Unprefixed(p.mkr), p.val))
    ELSE Event("end", Pair(Unprefixed(p.mkr), p.val))

\* iterparse runs only while its consumer asks for the next event
IterDemand == rstatus = "none" \/ (rstatus = "running" /\ taken = Len(events))

\* the body of `for mkr, val in pairs`
IterPair ==
    /\ istatus = "running"
    /\ IterDemand
    /\ ipos < Len(pairs)
    /\ LET p == pairs[ipos + 1]
       IN  /\ ipos' = ipos + 1
           /\ IF p.mkr \in all_keys(keys)
              THEN /\ events' = events \o Flush(data) \o <<Classify(p, keys)>>
                   /\ data' = <<>>
              ELSE /\ data' = Append(data, p)
                   /\ UNCHANGED events
    /\ UNCHANGED <<toolVars, keys, istatus, pairs, scanVars, alignVars, recVars>>

\* after the loop: yield the last batch
IterEnd ==
    /\ istatus = "running"
    /\ IterDemand
    /\ ipos = Len(pairs)
    /\ sstatus \in {"none", "done"}
    /\ events' = events \o Flush(data)
    /\ istatus' = "done"
    /\ UNCHANGED <<toolVars, keys, ipos, data, pairs, scanVars, alignVars, recVars>>

-----------------------------------------------------------------------------
(* records *)

\* the record_marker argument: a string, a list or tuple of markers, or a
\* value that is neither (a set, a number)
StrArg(m) == [kind |-> "str", v |-> m]
SeqArg(ms) == [kind |-> "seq", v |-> ms]
OtherArg == [kind |-> "other", v |-> <<>>]

\* if isinstance(record_marker, str): record_marker = [record_marker]
Listed(arg) == IF arg.kind = "str" THEN SeqArg(<<arg.v>>) ELSE arg

\* IsSequence as the specification words it: non-empty sequences only
IsSequence_NonEmpty(arg) == arg.kind = "seq" /\ arg.v # <<>>

\* isinstance(record_marker, Sequence), after the conversion of a string
IsSequence(arg) == arg.kind = "seq"

\* the one dict that `context = dict(...)` creates
ContextRef == 1

\* Index falling back to the top of the hierarchy for an unlisted marker
Index_Default(rm, m) == IF m \in Range(rm) THEN CHOOSE i \in 1..Len(rm) : rm[i] = m /\ \A j \in 1..(i - 1) : rm[j] # m ELSE 1

\* record_marker.index(mkr); 0 for the ValueError
Index(rm, m) == IF m \in Range(rm) THEN CHOOSE i \in 1..Len(rm) : rm[i] = m /\ \A j \in 1..(i - 1) : rm[j] # m ELSE 0

\* ResetRange taking the markers above idx instead
ResetRange_Above(rm, idx) == {rm[i] : i \in 1..idx}

\* record_marker[idx:]
ResetRange(rm, idx) == {rm[i] : i \in idx..Len(rm)}

\* the key branch: reset the hierarchy from mkr's rank on, then set mkr
OnKey(ctx, rm, m, val) ==
    LET idx == Index(rm, m)
        cleared == IF idx = 0 THEN ctx
                   ELSE [k \in DOMAIN ctx |-> IF k \in ResetRange(rm, idx) THEN None ELSE ctx[k]]
    IN  [cleared EXCEPT ![m] = val]

\* the first request for a Record: lines 145-151
RecStart ==
    /\ rstatus = "start"
    /\ LET rm == Listed(record_marker)
       IN  /\ record_marker' = rm
           /\ IF ~IsSequence(rm)
              THEN /\ rstatus' = "raised"
                   /\ UNCHANGED <<heap, keys, istatus>>
              ELSE /\ keys' = Range(rm.v) \cup context_keys
                   /\ heap' = <<[k \in Range(rm.v) \cup context_keys |-> None]>>
                   /\ istatus' = "running"
                   /\ rstatus' = "running"
    /\ UNCHANGED <<toolVars, context_keys, taken, recs, ipos, data, events, pairs, scanVars, alignVars>>

\* the body of `for event, result in iterparse(pairs, keys)`
RecEvent ==
    /\ rstatus = "running"
    /\ taken < Len(events)
    /\ LET e == events[taken + 1]
       IN  /\ taken' = taken + 1
           /\ IF e.event = "key"
              THEN /\ heap' = [heap EXCEPT ![ContextRef] =
                                   OnKey(@, record_marker.v, e.result.mkr, e.result.val)]
                   /\ UNCHANGED <<recs, rstatus>>
              ELSE IF e.event = "data"
              THEN /\ recs' = Append(recs, [context |-> ContextRef, data |-> e.result])
                   /\ UNCHANGED <<heap, rstatus>>
              ELSE /\ rstatus' = "raised"
                   /\ UNCHANGED <<heap, recs>>
    /\ UNCHANGED <<toolVars, record_marker, context_keys, iterVars, pairs, scanVars, alignVars>>

\* iterparse is exhausted: records returns
RecDone ==
    /\ rstatus = "running"
    /\ taken = Len(events)
    /\ istatus = "done"
    /\ rstatus' = "done"
    /\ UNCHANGED <<toolVars, record_marker, context_keys, heap, taken, recs, iterVars, pairs,
                   scanVars, alignVars>>

-----------------------------------------------------------------------------
(* align_fields *)

Entry(t, s) == [tgt |-> t, src |-> s]

\* set(alignments.keys()).union(alignments.values())
AlignedFields(al) == DOMAIN al \cup {al[k] : k \in DOMAIN al}

AlignMarkers == {T, M, G, F}

\* prev = {}
EmptyPrev == [k \in AlignMarkers |-> None]

\* [t.group(0).rstrip() for t in toks]
TokTexts(toks) == [i \in 1..Len(toks) |-> RStrip(toks[i].text)]

\* the call at the source branch; errors is not passed on, so
\* _collect_aligned_tokens runs with the default of its own parameter
CallCollect(toks, tgt_toks, errs) == CollectAlignedTokens(toks, tgt_toks, DefaultErrors)

\* OnMissingTarget emitting the entry of an unaligned field instead
OnMissingTarget_Fallback(m, val) == Some(<<[tgt |-> None, src |-> Some(<<Get(val)>>)]>>)

\* the branch `if tgt_toks is None`: a warning is logged and the loop
\* continues, nothing is appended
OnMissingTarget(m, val) == None

\* the source branch: look the target's tokenization up and align against it
AlignSource(m, val, toks, pv, al, errs) ==
    LET tgt_toks == pv[al[m]]
    IN  IF IsNone(tgt_toks)
        THEN [emit |-> OnMissingTarget(m, val), raised |-> FALSE]
        ELSE LET r == CallCollect(toks, Get(tgt_toks), errs)
             IN  IF r.raised
                 THEN [emit |-> None, raised |-> TRUE]
                 ELSE [emit |-> Some(r.aligned), raised |-> FALSE]

\* Record keeping the first tokenization of a marker
Record_KeepFirst(pv, m, toks) == IF IsNone(pv[m]) THEN [pv EXCEPT ![m] = Some(toks)] ELSE pv

\* prev[mkr] = toks
Record(pv, m, toks) == [pv EXCEPT ![m] = Some(toks)]

\* EmptyContent with an empty token list in place of None
EmptyContent_EmptyList == <<Entry(None, Some(<<>>))>>

\* the entry of a None-valued field
EmptyContent == <<Entry(None, None)>>

\* One iteration of the loop over pairs, for the pair (m, val) with the
\* tokenizations pv recorded so far: the new prev, the entry list appended
\* to aligned_pairs (None when nothing is appended) and whether it raised.
AlignOne(m, val, pv, al, errs) ==
    IF IsNone(val)
    THEN [prev |-> pv, emit |-> Some(EmptyContent), raised |-> FALSE]
    ELSE IF m \notin AlignedFields(al)
    THEN [prev |-> pv, emit |-> Some(<<Entry(None, Some(<<Get(val)>>))>>), raised |-> FALSE]
    ELSE LET toks == Tokenize(Get(val))
             pv2  == Record(pv, m, toks)
         IN  IF m \notin DOMAIN al
             THEN [prev |-> pv2,
                   emit |-> Some(<<Entry(val, Some(TokTexts(toks)))>>),
                   raised |-> FALSE]
             ELSE LET r == AlignSource(m, val, toks, pv2, al, errs)
                  IN  [prev |-> pv2, emit |-> r.emit, raised |-> r.raised]

\* lines 316-320: alignments.keys() on None raises AttributeError
AlignStart ==
    /\ astatus = "start"
    /\ IF IsNone(alignments)
       THEN /\ astatus' = "raised"
            /\ UNCHANGED <<prev, aligned_pairs>>
       ELSE /\ astatus' = "running"
            /\ prev' = EmptyPrev
            /\ aligned_pairs' = <<>>
    /\ UNCHANGED <<toolVars, alignments, errors, apos, raisedAt, emitIdx, pairs, scanVars, iterVars, recVars>>

\* the body of `for mkr, val in pairs`
AlignField ==
    /\ astatus = "running"
    /\ apos < Len(pairs)
    /\ LET p == pairs[apos + 1]
           r == AlignOne(p.mkr, p.val, prev, Get(alignments), errors)
       IN  /\ apos' = apos + 1
           /\ prev' = r.prev
           /\ IF r.raised
              THEN /\ astatus' = "raised"
                   /\ raisedAt' = apos + 1
                   /\ UNCHANGED <<aligned_pairs, emitIdx>>
              ELSE /\ IF IsNone(r.emit)
                      THEN UNCHANGED <<aligned_pairs, emitIdx>>
                      ELSE /\ aligned_pairs' =
                                Append(aligned_pairs, [mkr |-> p.mkr, ents |-> Get(r.emit)])
                           /\ emitIdx' = Append(emitIdx, apos + 1)
                   /\ UNCHANGED <<astatus, raisedAt>>
    /\ UNCHANGED <<toolVars, alignments, errors, pairs, scanVars, iterVars, recVars>>

\* return aligned_pairs
AlignReturn ==
    /\ astatus = "running"
    /\ apos = Len(pairs)
    /\ sstatus \in {"none", "done"}
    /\ astatus' = "returned"
    /\ UNCHANGED <<toolVars, alignments, errors, apos, prev, aligned_pairs, raisedAt, emitIdx,
                   pairs, scanVars, iterVars, recVars>>

-----------------------------------------------------------------------------
(* field_groups *)

\* StartsOver without the test for a repeated marker
StartsOver_Unaligned(m, al, sn) == m \notin al

\* if mkr not in aligned_fields or mkr in seen
StartsOver(m, al, sn) == m \notin al \/ m \in sn

\* if group: yield group
YieldGroup(bs, g) == IF g # <<>> THEN Append(bs, g) ELSE bs

\* the body of `for mkr, val in pairs`
GroupPair ==
    /\ gstatus = "running"
    /\ gpos < Len(pairs)
    /\ LET p == pairs[gpos + 1]
       IN  /\ gpos' = gpos + 1
           /\ IF StartsOver(p.mkr, aligned_fields, seen)
              THEN IF p.mkr \notin aligned_fields
                   THEN /\ blocks' = Append(YieldGroup(blocks, group), <<p>>)
                        /\ group' = <<>>
                        /\ seen' = {}
                   ELSE /\ blocks' = YieldGroup(blocks, group)
                        /\ group' = <<p>>
                        /\ seen' = {p.mkr}
              ELSE /\ group' = Append(group, p)
                   /\ seen' = seen \cup {p.mkr}
                   /\ UNCHANGED blocks
    /\ UNCHANGED <<gstatus, aligned_fields, normVars, pairs, scanVars, alignVars, iterVars, recVars>>

\* after the loop: yield the last group if non-empty
GroupEnd ==
    /\ gstatus = "running"
    /\ gpos = Len(pairs)
    /\ blocks' = YieldGroup(blocks, group)
    /\ gstatus' = "done"
    /\ UNCHANGED <<gpos, group, seen, aligned_fields, normVars, pairs, scanVars, alignVars,
                   iterVars, recVars>>

-----------------------------------------------------------------------------
(* normalize_record *)

\* field_data: the index of marker m; 0 if it is not a key
FieldIndex(fd, m) ==
    IF \E k \in 1..Len(fd) : fd[k].mkr = m THEN CHOOSE k \in 1..Len(fd) : fd[k].mkr = m ELSE 0

\* if mkr not in field_data: field_data[mkr] = []
WithField(fd, m) == IF FieldIndex(fd, m) = 0 THEN Append(fd, [mkr |-> m, vals |-> <<>>]) ELSE fd

\* maxlens.get(i, -1)
MaxlenAt(ml, n) == IF n \in DOMAIN ml THEN ml[n] ELSE -1

\* maxlens[i] = len(val)
SetMaxlen(ml, n, len) == [j \in (DOMAIN ml) \cup {n} |-> IF j = n THEN len ELSE ml[j]]

\* One iteration of the first loop, for the pair p: the new field_data and
\* maxlens, and the local i (None when the iteration ends at `continue`)
Collected(fd, ml, p, al) ==
    LET fd1 == WithField(fd, p.mkr)
        k   == FieldIndex(fd1, p.mkr)
    IN  IF IsNone(p.val) THEN [fd |-> fd1, ml |-> ml, i |-> None]
        ELSE LET val == Get(p.val)
                 fd2 == [fd1 EXCEPT ![k].vals = Append(@, val)]
                 n   == Len(fd2[k].vals) - 1
             IN  [fd |-> fd2,
                  ml |-> IF p.mkr \in al /\ Len(val) > MaxlenAt(ml, n)
                         THEN SetMaxlen(ml, n, Len(val)) ELSE ml,
                  i  |-> Some(n)]

\* s.ljust(width)
LJust(str, width) ==
    str \o [j \in 1..(IF width > Len(str) THEN width - Len(str) ELSE 0) |-> SP]

RECURSIVE JoinSpaced(_)
\* ' '.join(list of strings)
JoinSpaced(ss) ==
    IF ss = <<>> THEN <<>>
    ELSE IF Len(ss) = 1 THEN ss[1]
    ELSE ss[1] \o <<SP>> \o JoinSpaced(Tail(ss))

\* Stripped leaving the trailing whitespace on
Stripped_Never(joined, st) == joined

\* if strip and joined is not None: joined = joined.rstrip()
Stripped(joined, st) == IF st THEN RStrip(joined) ELSE joined

\* the body of `for mkr in mkrs`: the joined value of one marker
Joined(m, vals, ml, al, st) ==
    IF vals = <<>> THEN None
    ELSE IF m \in al
    THEN Some(Stripped(JoinSpaced([j \in 1..Len(vals) |-> LJust(vals[j], ml[j - 1])]), st))
    ELSE Some(Stripped(JoinSpaced(vals), st))

\* list(field_data.items()) after the second loop
Items(fd, ml, al, st) ==
    [k \in 1..Len(fd) |-> Pair(fd[k].mkr, Joined(fd[k].mkr, fd[k].vals, ml, al, st))]

RECURSIVE CollectedAll(_, _, _)
\* the first loop over the first n pairs of ps
CollectedAll(ps, n, al) ==
    IF n = 0 THEN [fd |-> <<>>, ml |-> <<>>, i |-> None]
    ELSE LET c == CollectedAll(ps, n - 1, al) IN Collected(c.fd, c.ml, ps[n], al)

\* the function as a whole
normalize_record(ps, al, st) ==
    LET c == CollectedAll(ps, Len(ps), al) IN Items(c.fd, c.ml, al, st)

\* the body of the first loop
NormPair ==
    /\ nstatus = "running"
    /\ npos < Len(pairs)
    /\ LET c == Collected(field_data, maxlens, pairs[npos + 1], aligned_fields)
       IN  /\ npos' = npos + 1
           /\ field_data' = c.fd
           /\ maxlens' = c.ml
           /\ slot' = c.i
    /\ UNCHANGED <<nstrip, normalized, nstatus, aligned_fields, groupVars, pairs, scanVars,
                   alignVars, iterVars, recVars>>

\* the second loop and the return
NormReturn ==
    /\ nstatus = "running"
    /\ npos = Len(pairs)
    /\ normalized' = Items(field_data, maxlens, aligned_fields, nstrip)
    /\ nstatus' = "returned"
    /\ UNCHANGED <<nstrip, npos, field_data, maxlens, slot, aligned_fields, groupVars, pairs,
                   scanVars, alignVars, iterVars, recVars>>

-----------------------------------------------------------------------------
(* Inputs of align_fields *)

\* the alignments {\m: \t, \g: \m} of the docstring example
DocAlignments == (M :> T) @@ (G :> M)

\* field values: every string of at most MaxLen characters over a word
\* character and the blank, and the absent value
AlignValues == {None} \cup {Some(s) : s \in StrsUpTo({"x", SP}, MaxLen)}

\* the marker sequences of the enumerated inputs
Layouts == {<<T, M>>, <<M, T>>, <<G, F>>, <<M, G>>, <<T, M, G>>, <<T, T, M>>}

\* the fields of marker sequence lay with the values v
Fields(lay, v) == [i \in 1..Len(lay) |-> Pair(lay[i], v[i])]

TxtSingle ==
    <<"i", "n", "u", "=", "g", "a", " ", "i", "p", "p", "i", "k", "i", " ",
      "h", "o", "e", "r", "u">>

MorSingle ==
    <<"i", "n", "u", " ", "=", "g", "a", " ", "i", "c", "h", "i", " ", "-",
      "h", "i", "k", "i", " ", "h", "o", "e", " ", "-", "r", "u">>

GloSingle ==
    <<"d", "o", "g", " ", "=", "N", "O", "M", " ", "o", "n", "e", " ", "-",
      "C", "L", "F", ".", "A", "N", "I", "M", "A", "L", " ", "b", "a", "r",
      "k", " ", "-", "I", "P", "F", "V">>

FreeTrans ==
    <<"O", "n", "e", " ", "d", "o", "g", " ", "b", "a", "r", "k", "s", ".">>

TxtPadded ==
    <<"i", "n", "u", "=", "g", "a", " ", " ", " ", "i", "p", "p", "i", "k",
      "i", " ", " ", " ", " ", " ", " ", " ", " ", " ", " ", " ", "h", "o",
      "e", "r", "u", " ", " ", " ", " ", " ">>

MorPadded ==
    <<"i", "n", "u", " ", "=", "g", "a", " ", " ", "i", "c", "h", "i", " ",
      "-", "h", "i", "k", "i", " ", " ", " ", " ", " ", " ", " ", "h", "o",
      "e", " ", " ", "-", "r", "u", " ", " ">>

GloPadded ==
    <<"d", "o", "g", " ", "=", "N", "O", "M", " ", "o", "n", "e", " ", " ",
      "-", "C", "L", "F", ".", "A", "N", "I", "M", "A", "L", " ", "b", "a",
      "r", "k", " ", "-", "I", "P", "F", "V">>

\* the interlinear example with single spaces between the words
SingleSpaced ==
    <<Pair(T, Some(TxtSingle)), Pair(M, Some(MorSingle)),
      Pair(G, Some(GloSingle)), Pair(F, Some(FreeTrans))>>

\* the interlinear example padded into columns, as in the docstring
ColumnPadded ==
    <<Pair(T, Some(TxtPadded)), Pair(M, Some(MorPadded)),
      Pair(G, Some(GloPadded)), Pair(F, Some(FreeTrans))>>

ScanIdle ==
    /\ lines = <<>>
    /\ strip = TRUE
    /\ lpos = 0
    /\ mkr = None
    /\ val_lines = <<>>
    /\ sstatus = "none"

AlignIdle ==
    /\ alignments = None
    /\ errors = "strict"
    /\ apos = 0
    /\ prev = EmptyPrev
    /\ aligned_pairs = <<>>
    /\ astatus = "none"
    /\ raisedAt = 0
    /\ emitIdx = <<>>

IterIdle ==
    /\ keys = {}
    /\ ipos = 0
    /\ data = <<>>
    /\ events = <<>>
    /\ istatus = "none"

RecIdle ==
    /\ record_marker = [kind |-> "other", v |-> <<>>]
    /\ context_keys = {}
    /\ heap = <<>>
    /\ taken = 0
    /\ recs = <<>>
    /\ rstatus = "none"

GroupIdle ==
    /\ gpos = 0
    /\ group = <<>>
    /\ seen = {}
    /\ blocks = <<>>
    /\ gstatus = "none"

NormIdle ==
    /\ nstrip = TRUE
    /\ npos = 0
    /\ field_data = <<>>
    /\ maxlens = <<>>
    /\ slot = None
    /\ normalized = <<>>
    /\ nstatus = "none"

\* neither field_groups nor normalize_record is called
RecordToolsIdle == aligned_fields = {} /\ GroupIdle /\ NormIdle

InitAlign ==
    /\ RecordToolsIdle
    /\ ScanIdle
    /\ IterIdle
    /\ RecIdle
    /\ \/ \E lay \in Layouts : \E v \in [1..Len(lay) -> AlignValues] : pairs = Fields(lay, v)
       \/ pairs \in {SingleSpaced, ColumnPadded}
    /\ \/ alignments = Some(DocAlignments) /\ errors \in {"strict", "ignore"}
       \/ alignments = None /\ errors = "strict"
    /\ apos = 0
    /\ prev = EmptyPrev
    /\ aligned_pairs = <<>>
    /\ astatus = "start"
    /\ raisedAt = 0
    /\ emitIdx = <<>>

NextAlign == AlignStart \/ AlignField \/ AlignReturn

SpecAlign == InitAlign /\ [][NextAlign]_vars

-----------------------------------------------------------------------------
(* align_fields(read_toolbox_file(f), alignments) *)

MaxLines == 3

RECURSIVE SeqsOfLen(_, _)
SeqsOfLen(S, n) ==
    IF n = 0 THEN {<<>>}
    ELSE {Append(q, x) : q \in SeqsOfLen(S, n - 1), x \in S}

SeqsUpTo(S, n) == UNION {SeqsOfLen(S, k) : k \in 0..n}

\* marker lines without and with content, and a continuation line
PipeLines ==
    {m \o t : m \in AlignMarkers, t \in {<<NL>>, <<SP, "x", NL>>}}
        \cup {<<"x", NL>>, T \o <<SP, NL>>}

InitPipe ==
    /\ RecordToolsIdle
    /\ IterIdle
    /\ RecIdle
    /\ lines \in SeqsUpTo(PipeLines, MaxLines)
    /\ strip \in BOOLEAN
    /\ lpos = 0
    /\ mkr = None
    /\ val_lines = <<>>
    /\ sstatus = "running"
    /\ pairs = <<>>
    /\ alignments = Some(DocAlignments)
    /\ errors = "strict"
    /\ apos = 0
    /\ prev = EmptyPrev
    /\ aligned_pairs = <<>>
    /\ astatus = "start"
    /\ raisedAt = 0
    /\ emitIdx = <<>>

NextPipe == ScanLine \/ ScanEnd \/ AlignStart \/ AlignField \/ AlignReturn

SpecPipe == InitPipe /\ [][NextPipe]_vars

-----------------------------------------------------------------------------
(* Inputs of iterparse and records *)

MaxPairs == 3

ID == <<BS, "i", "d">>
REF == <<BS, "r", "e", "f">>
PAGE == <<BS, "p", "a", "g", "e">>
StartID == <<BS, "+", "i", "d">>
EndREF == <<BS, "-", "r", "e", "f">>

RecMarkers == {ID, REF, PAGE, T, StartID, EndREF}

\* the values play no part in iterparse and records: the value of the
\* i-th pair is the number i, so that every pair of a stream is distinct
Stream(ms) == [i \in 1..Len(ms) |-> Pair(ms[i], Some(i))]

\* every stream of at most MaxPairs pairs
IsPairStream(ps) == \E n \in 0..MaxPairs : \E ms \in [1..n -> RecMarkers] : ps = Stream(ms)

InitIter ==
    /\ RecordToolsIdle
    /\ ScanIdle
    /\ AlignIdle
    /\ RecIdle
    /\ IsPairStream(pairs)
    /\ keys \in {{}, {ID}, {ID, REF}, {ID, StartID}, {REF, PAGE}}
    /\ ipos = 0
    /\ data = <<>>
    /\ events = <<>>
    /\ istatus = "running"

NextIter == IterPair \/ IterEnd

SpecIter == InitIter /\ [][NextIter]_vars

InitRecords ==
    /\ RecordToolsIdle
    /\ ScanIdle
    /\ AlignIdle
    /\ IterIdle
    /\ IsPairStream(pairs)
    /\ \/ record_marker = StrArg(ID) /\ context_keys = {}
       \/ record_marker = SeqArg(<<ID, REF>>) /\ context_keys \in {{}, {PAGE}, {StartID}}
       \/ record_marker = SeqArg(<<REF, ID>>) /\ context_keys = {}
       \/ record_marker = SeqArg(<<>>) /\ context_keys = {PAGE}
       \/ record_marker = OtherArg /\ context_keys = {}
    /\ heap = <<>>
    /\ taken = 0
    /\ recs = <<>>
    /\ rstatus = "start"

NextRecords == RecStart \/ IterPair \/ IterEnd \/ RecEvent \/ RecDone

SpecRecords == InitRecords /\ [][NextRecords]_vars

-----------------------------------------------------------------------------
(* Properties of align_fields *)

Al == Get(alignments)

\* pair i is a source of an alignment and has content
IsSourceField(i) == ~IsNone(pairs[i].val) /\ pairs[i].mkr \in DOMAIN Al

\* the indices up to i whose pair is a field of marker m with content
Occurrences(m, i) == {j \in 1..i : pairs[j].mkr = m /\ ~IsNone(pairs[j].val)}

\* pair i is a source whose target marker has no content at or before i
MissingTarget(i) == IsSourceField(i) /\ Occurrences(Al[pairs[i].mkr], i) = {}

Max(S) == CHOOSE x \in S : \A y \in S : y <= x

\* the tokens of the latest occurrence of pair i's target
TargetTokens(i) == Tokenize(Get(pairs[Max(Occurrences(Al[pairs[i].mkr], i))].val))

\* on reaching some target token, the end of the last consumed source
\* token exceeds the target token's start
Misaligned(i) ==
    /\ IsSourceField(i)
    /\ ~MissingTarget(i)
    /\ CollectAlignedTokens(Tokenize(Get(pairs[i].val)), TargetTokens(i), "strict").raised

RECURSIVE SumLen(_)
SumLen(ents) == IF ents = <<>> THEN 0 ELSE Len(Get(Head(ents).src)) + SumLen(Tail(ents))

RECURSIVE Ascending(_, _)
\* the members of S in 1..n, in ascending order
Ascending(S, n) ==
    IF n = 0 THEN <<>>
    ELSE IF n \in S THEN Append(Ascending(S, n - 1), n) ELSE Ascending(S, n - 1)

\* C3 (as claimed): a misaligned source field makes the call raise exactly
\* when the error mode is 'strict'; in any other mode the call does not raise.
C3_ErrorModeHonoured ==
    astatus \in {"running", "returned", "raised"} /\ ~IsNone(alignments) =>
        \A i \in 1..apos : Misaligned(i) => (errors = "strict" <=> raisedAt = i)

\* C4 (as claimed): every emitted source field keeps all its tokens: the
\* sizes of its groups add up to the number of tokens of its value, also
\* when the target's recorded tokenization is empty.
C4_TokenConservation ==
    \A k \in 1..Len(aligned_pairs) :
        IsSourceField(emitIdx[k]) =>
            SumLen(aligned_pairs[k].ents) = Len(Tokenize(Get(pairs[emitIdx[k]].val)))

Str(s) == Some(s)

Grp(ws) == Some(ws)

\* the six entries claimed for \g
GlossEntries ==
    <<Entry(Str(<<"i", "n", "u">>), Grp(<< <<"d", "o", "g">> >>)),
      Entry(Str(<<"=", "g", "a">>), Grp(<< <<"=", "N", "O", "M">> >>)),
      Entry(Str(<<"i", "c", "h", "i">>), Grp(<< <<"o", "n", "e">> >>)),
      Entry(Str(<<"-", "h", "i", "k", "i">>),
            Grp(<< <<"-", "C", "L", "F", ".", "A", "N", "I", "M", "A", "L">> >>)),
      Entry(Str(<<"h", "o", "e">>), Grp(<< <<"b", "a", "r", "k">> >>)),
      Entry(Str(<<"-", "r", "u">>), Grp(<< <<"-", "I", "P", "F", "V">> >>))>>

\* the call has returned a result holding the claimed entries of \g and \f
InterlinearResult ==
    /\ astatus = "returned"
    /\ \E k \in 1..Len(aligned_pairs) :
          aligned_pairs[k] = [mkr |-> G, ents |-> GlossEntries]
    /\ \E k \in 1..Len(aligned_pairs) :
          aligned_pairs[k] = [mkr |-> F, ents |-> <<Entry(None, Grp(<<FreeTrans>>))>>]
    /\ \A k \in 1..Len(aligned_pairs) :
          aligned_pairs[k].mkr = G => aligned_pairs[k].ents = GlossEntries

Ended == astatus \in {"returned", "raised"}

DocCall == alignments = Some(DocAlignments) /\ errors = "strict"

\* C5 (as claimed): with the single-spaced fields, the call ends with the
\* six entries of \g and the single entry of \f.
C5_SingleSpaced == (pairs = SingleSpaced /\ DocCall /\ Ended) => InterlinearResult

\* C5 (amended): with the fields padded into columns as in the docstring
\* example, the call ends with the six entries of \g and the single entry
\* (None, [value]) of \f.
C5_ColumnPadded == (pairs = ColumnPadded /\ DocCall /\ Ended) => InterlinearResult

C5_Witness == pairs = ColumnPadded /\ DocCall /\ astatus = "returned"

\* C6: a source field whose target has no recorded tokenization never
\* raises and gets no entry, in either error mode, and every other field
\* processed without error has its entry list, in input order.
C6_MissingTargetDropped ==
    astatus \in {"running", "returned", "raised"} /\ ~IsNone(alignments) =>
        /\ \A i \in 1..apos : MissingTarget(i) => raisedAt # i
        /\ LET n == IF raisedAt > 0 THEN apos - 1 ELSE apos
           IN  emitIdx = Ascending({i \in 1..n : ~MissingTarget(i)}, n)
        /\ \A k \in 1..Len(aligned_pairs) : aligned_pairs[k].mkr = pairs[emitIdx[k]].mkr

C6_Witness ==
    /\ astatus = "returned"
    /\ errors # "strict"
    /\ Len(pairs) = 2
    /\ MissingTarget(1)
    /\ emitIdx = <<2>>

-----------------------------------------------------------------------------
(* Properties of the scanner feeding align_fields *)

\* a marker and nothing after it but the line terminator
BareMarkerLine(line) ==
    /\ Len(line) >= 2
    /\ line[1] = BS
    /\ \A j \in 2..Len(line) : IsSpace(line[j]) => (j = Len(line) /\ j > 2 /\ line[j] = NL)

IsMarkerLine(line) == ~IsNone(LineMatch(line))

\* the number of marker lines among the first i lines: the index of the
\* pair that the marker line i opens
PairIndex(i) == Cardinality({j \in 1..i : IsMarkerLine(lines[j])})

\* C7: a bare marker line directly followed by a marker line is scanned as
\* a pair with value None, and every None-valued pair that align_fields
\* has processed has exactly the entry list [(None, None)].
C7_AbsentValue ==
    /\ \A i \in 1..(lpos - 1) :
          BareMarkerLine(lines[i]) /\ IsMarkerLine(lines[i + 1]) =>
              /\ PairIndex(i) <= Len(pairs)
              /\ pairs[PairIndex(i)] = Pair(RStrip(lines[i]), None)
    /\ \A i \in 1..apos :
          IsNone(pairs[i].val) =>
              \E k \in 1..Len(emitIdx) :
                  /\ emitIdx[k] = i
                  /\ aligned_pairs[k] = [mkr |-> pairs[i].mkr, ents |-> <<Entry(None, None)>>]

\* the four kinds of marker have each been seen with an absent value
C7_Witness ==
    /\ astatus = "returned"
    /\ Len(lines) = 3
    /\ lines[1] = M \o <<NL>>
    /\ lines[2] = F \o <<NL>>
    /\ lines[3] = T \o <<SP, "x", NL>>
    /\ aligned_pairs[1] = [mkr |-> M, ents |-> <<Entry(None, None)>>]
    /\ aligned_pairs[2] = [mkr |-> F, ents |-> <<Entry(None, None)>>]

-----------------------------------------------------------------------------
(* Properties of iterparse *)

\* m is a key, or the block-start or block-end form of a key
IsBoundary(m, ks) ==
    \/ m \in ks
    \/ \E k \in ks : Len(k) >= 1 /\ k[1] = BS /\ m \in {<<BS, "+">> \o Tail(k), <<BS, "-">> \o Tail(k)}

NumKeyEvents == Cardinality({k \in 1..Len(events) : events[k].event = "key"})

NumKeyPairs(n) == Cardinality({i \in 1..n : pairs[i].mkr \in keys})

\* batch is pairs[i..j], a run of pairs without a boundary marker that no
\* neighbouring pair read so far could extend
IsWholeRun(batch, i) ==
    LET j == i + Len(batch) - 1
    IN  /\ j <= ipos
        /\ batch = SubSeq(pairs, i, j)
        /\ \A n \in i..j : ~IsBoundary(pairs[n].mkr, keys)
        /\ i > 1 => IsBoundary(pairs[i - 1].mkr, keys)
        /\ j < ipos => IsBoundary(pairs[j + 1].mkr, keys)

\* C8: there are as many Key events as pairs read whose marker is a key;
\* every Data batch is a non-empty run of pairs lying between two boundary
\* pairs (or the ends of the stream) with no boundary marker inside; and no
\* Data event directly follows another.
C8_KeyCountAndBatches ==
    /\ NumKeyEvents = NumKeyPairs(ipos)
    /\ \A k \in 1..Len(events) :
          events[k].event = "data" =>
              /\ Len(events[k].result) > 0
              /\ \E i \in 1..ipos : IsWholeRun(events[k].result, i)
              /\ k < Len(events) => events[k + 1].event # "data"

\* a batch has been flushed before a key, and another at the end
C8_Witness ==
    /\ istatus = "done"
    /\ rstatus = "none"
    /\ Len(pairs) = 3
    /\ keys = {ID, REF}
    /\ Len(events) = 3
    /\ events[1].event = "data"
    /\ events[2].event = "key"
    /\ events[3].event = "data"

-----------------------------------------------------------------------------
(* Properties of records *)

\* the context a delivered Record holds
Held(h, r) == h[r.context]

\* C1 (as claimed): no step changes the context held by a Record that has
\* already been emitted, so each Record keeps the context of its emission.
C1_SnapshotByValue ==
    [][\A k \in 1..Len(recs) : Held(heap', recs[k]) = Held(heap, recs[k])]_vars

\* the step consumes a Key event for marker m
KeyStep(m) ==
    /\ rstatus = "running"
    /\ taken' = taken + 1
    /\ events[taken + 1].event = "key"
    /\ events[taken + 1].result.mkr = m

\* C2: a Key event for the hierarchy marker of rank i sets that marker to
\* the new value, sets every hierarchy marker of greater rank to None and
\* leaves every hierarchy marker of smaller rank as it was.
C2_HierarchyReset ==
    [][\A i \in 1..Len(record_marker.v) :
          KeyStep(record_marker.v[i]) =>
              LET rm  == record_marker.v
                  old == heap[ContextRef]
                  new == heap'[ContextRef]
              IN  /\ new[rm[i]] = events[taken + 1].result.val
                  /\ \A j \in (i + 1)..Len(rm) : new[rm[j]] = None
                  /\ \A j \in 1..(i - 1) : new[rm[j]] = old[rm[j]]]_vars

\* hierarchy [\id, \ref]: \ref was set, then \id was seen and reset it
C2_Witness ==
    /\ record_marker = SeqArg(<<ID, REF>>)
    /\ Len(pairs) = 3
    /\ pairs[1].mkr = ID /\ pairs[2].mkr = REF /\ pairs[3].mkr = ID
    /\ taken = 3
    /\ heap[ContextRef][ID] = Some(3)
    /\ heap[ContextRef][REF] = None

ValidHierarchy == record_marker.kind \in {"str", "seq"}

Tracked == Range(Listed(record_marker).v) \cup context_keys

\* pair i carries the block-start or block-end form of a tracked marker
\* and is not itself a tracked marker
Offending(i) == pairs[i].mkr \notin Tracked /\ IsBoundary(pairs[i].mkr, Tracked)

OffendingPairs == {i \in 1..Len(pairs) : Offending(i)}

Min(S) == CHOOSE x \in S : \A y \in S : x <= y

RECURSIVE DataBefore(_)
\* the pairs before index n + 1 that are no boundary pairs, in order
DataBefore(n) ==
    IF n = 0 THEN <<>>
    ELSE IF IsBoundary(pairs[n].mkr, Tracked) THEN DataBefore(n - 1)
    ELSE Append(DataBefore(n - 1), pairs[n])

RECURSIVE Delivered(_)
\* the data of the Records delivered, concatenated
Delivered(rs) == IF rs = <<>> THEN <<>> ELSE Head(rs).data \o Delivered(Tail(rs))

\* C9 (as claimed): when the stream holds a block-start or block-end form
\* of a tracked marker, records ends with a protocol error and no Record
\* has been delivered.
C9_NoPartialResults ==
    (ValidHierarchy /\ rstatus \in {"done", "raised"} /\ OffendingPairs # {}) =>
        (rstatus = "raised" /\ recs = <<>>)

\* C9 (amended): records ends with a protocol error exactly when the stream
\* holds such a marker; it fails on reaching the first one, when the
\* Records of all the data before that marker have been delivered, and
\* nothing after that marker is delivered.
C9_AbortAtFirstMarker ==
    (ValidHierarchy /\ rstatus \in {"done", "raised"}) =>
        /\ rstatus = "raised" <=> OffendingPairs # {}
        /\ rstatus = "raised" =>
              /\ ipos = Min(OffendingPairs)
              /\ Delivered(recs) = DataBefore(Min(OffendingPairs) - 1)
        /\ \A k \in 1..Len(recs) : recs[k].data # <<>>

\* a Record was delivered before the block-start marker was reached
C9_Witness ==
    /\ ValidHierarchy
    /\ rstatus = "raised"
    /\ Len(recs) = 1
    /\ Len(pairs) = 3
    /\ Offending(2)

\* C10 (as claimed): a record_marker that is neither a single marker nor a
\* non-empty sequence of markers raises an error and no Record is emitted.
C10_InvalidHierarchyRejected ==
    (record_marker.kind = "other" \/ record_marker = SeqArg(<<>>)) =>
        (recs = <<>> /\ rstatus # "done")

\* C10 (amended): a record_marker that is neither a string nor a sequence
\* raises an error on the first request and no Record is emitted; an empty
\* sequence is accepted as a hierarchy of no markers, and Records are
\* emitted under it.
C10_NonSequenceRejected ==
    /\ record_marker.kind = "other" => (recs = <<>> /\ rstatus \in {"start", "raised"})
    /\ record_marker = SeqArg(<<>>) /\ rstatus = "raised" =>
          (taken >= 1 /\ events[taken].event \in {"start", "end"})
    /\ record_marker = SeqArg(<<>>) /\ rstatus = "done" => Delivered(recs) = DataBefore(Len(pairs))

C10_Witness == record_marker.kind = "other" /\ rstatus = "raised" /\ Len(pairs) = MaxPairs

-----------------------------------------------------------------------------
(* read_toolbox_file on its own: list(read_toolbox_file(f, strip)) *)

ScanMarkers == {T, M}

\* what follows the marker on a line that starts with one: nothing, the
\* separator alone, the separator and content with a trailing blank, and a
\* tab, which is not the separator
ScanTails == {<<>>, <<SP>>, <<SP, "x", SP>>, <<TAB, "x">>}

\* the lines without their terminator: lines that start with a marker, a
\* line of text and the empty line
ScanBodies == {m \o t : m \in ScanMarkers, t \in ScanTails} \cup {<<"x">>, <<>>}

\* the lines of a file: every line ends with the terminator, except the
\* last one when the file does not end with a terminator (eof)
FileLines(bodies, eof) ==
    [i \in 1..Len(bodies) |->
        IF eof /\ i = Len(bodies) THEN bodies[i] ELSE Append(bodies[i], NL)]

InitScan ==
    /\ RecordToolsIdle
    /\ AlignIdle
    /\ IterIdle
    /\ RecIdle
    /\ \E bodies \in SeqsUpTo(ScanBodies, MaxLines) : \E eof \in BOOLEAN :
          /\ eof => (bodies # <<>> /\ bodies[Len(bodies)] # <<>>)
          /\ lines = FileLines(bodies, eof)
    /\ strip \in BOOLEAN
    /\ lpos = 0
    /\ mkr = None
    /\ val_lines = <<>>
    /\ sstatus = "running"
    /\ pairs = <<>>

NextScan == ScanLine \/ ScanEnd

SpecScan == InitScan /\ [][NextScan]_vars

-----------------------------------------------------------------------------
(* Emission of the scanner *)

\* the indices of the marker lines among the first n lines
MarkerLines(n) == {i \in 1..n : IsMarkerLine(lines[i])}

\* the index of the k-th marker line
NthMarkerLine(k) == CHOOSE i \in MarkerLines(Len(lines)) : Cardinality(MarkerLines(i)) = k

\* the index of the first marker line after line i; Len(lines) + 1 if none
NextMarkerLine(i) == Min({j \in (i + 1)..Len(lines) : IsMarkerLine(lines[j])} \cup {Len(lines) + 1})

\* the value of the pair opened by marker line i and closed before line j:
\* the content of line i and every line between the two, None when there
\* is neither
ValueBetween(i, j) ==
    LET first == Get(LineMatch(lines[i])).val
        text == (IF IsNone(first) THEN <<>> ELSE Get(first)) \o Concat(SubSeq(lines, i + 1, j - 1))
    IN  IF IsNone(first) /\ j = i + 1 THEN None
        ELSE Some(IF strip THEN RStrip(text) ELSE text)

\* C16: the pairs emitted are those of the marker lines, in their order,
\* one pair behind the scan: while lines are being read, all marker lines
\* read but the last have their pair; once the input has ended every marker
\* line has.  The value of a pair holds the content of its marker line and
\* every line up to the next marker line; lines before the first marker
\* line belong to no pair.
C16_OnePairBehind ==
    sstatus \in {"running", "done"} =>
        /\ Len(pairs) = IF sstatus = "done" THEN Cardinality(MarkerLines(Len(lines)))
                        ELSE IF MarkerLines(lpos) = {} THEN 0
                        ELSE Cardinality(MarkerLines(lpos)) - 1
        /\ \A k \in 1..Len(pairs) :
              LET i == NthMarkerLine(k)
                  j == NextMarkerLine(i)
              IN  /\ sstatus = "running" => j <= lpos
                  /\ pairs[k].mkr = Get(LineMatch(lines[i])).mkr
                  /\ pairs[k].val = ValueBetween(i, j)

\* a marker line with content, a line of text and a second marker line
\* have been read: the one pair emitted is that of the first marker line,
\* and its value ends with the line of text
C16_Witness ==
    /\ sstatus = "running"
    /\ ~strip
    /\ lpos = 3
    /\ lines[1] = T \o <<SP, "x", SP, NL>>
    /\ lines[2] = <<"x", NL>>
    /\ IsMarkerLine(lines[3])
    /\ pairs = <<Pair(T, Some(<<"x", SP, NL, "x", NL>>))>>

-----------------------------------------------------------------------------
(* Writing the pairs back *)

\* a pair as a line: the marker, then the separator and the value if any
WriteBack(p) == p.mkr \o (IF IsNone(p.val) THEN <<>> ELSE <<SP>> \o Get(p.val))

Written(ps) == Concat([k \in 1..Len(ps) |-> WriteBack(ps[k])])

\* the input begins with a marker line and was scanned to the end without
\* stripping
ScannedRaw == sstatus = "done" /\ ~strip /\ lines # <<>> /\ IsMarkerLine(lines[1])

\* C12 (as claimed): for an input that begins with a marker line, scanned
\* with strip=False, the pairs written back and concatenated are the
\* original text.
C12_RoundTrip == ScannedRaw => Written(pairs) = Concat(lines)

\* C12 (amended): the same, for inputs in which every marker line has the
\* separator after its marker.
C12_RoundTripWithSeparator ==
    ScannedRaw /\ (\A i \in 1..Len(lines) : ~BareMarkerLine(lines[i])) =>
        Written(pairs) = Concat(lines)

\* a marker line with content and a trailing blank, a continuation line
\* and a marker line with the separator alone, written back unchanged
C12_Witness ==
    /\ ScannedRaw
    /\ lines = <<T \o <<SP, "x", SP, NL>>, <<"x", NL>>, M \o <<SP, NL>>>>
    /\ pairs = <<Pair(T, Some(<<"x", SP, NL, "x", NL>>)), Pair(M, Some(<<NL>>))>>

-----------------------------------------------------------------------------
(* field_groups(pairs, aligned_fields) on its own *)

InitGroups ==
    /\ ScanIdle
    /\ AlignIdle
    /\ IterIdle
    /\ RecIdle
    /\ NormIdle
    /\ \E n \in 0..MaxPairs : \E ms \in [1..n -> AlignMarkers] : pairs = Stream(ms)
    /\ aligned_fields \in {{T, M, G}, {T}, {}}
    /\ gpos = 0
    /\ group = <<>>
    /\ seen = {}
    /\ blocks = <<>>
    /\ gstatus = "running"

NextGroups == GroupPair \/ GroupEnd

SpecGroups == InitGroups /\ [][NextGroups]_vars

\* the markers of block b, in order
BlockMarkers(b) == [k \in 1..Len(b) |-> b[k].mkr]

\* C18: the blocks emitted so far, followed by the block being built, are
\* the pairs read so far, and at the end the blocks are the input; no block
\* is empty; no block holds a marker twice; every pair read whose marker is
\* not aligned is a block of its own; a block of more than one pair holds
\* aligned markers only.
C18_Partition ==
    gstatus \in {"running", "done"} =>
        /\ IF gstatus = "done"
           THEN Concat(blocks) = pairs
           ELSE Concat(blocks) \o group = SubSeq(pairs, 1, gpos)
        /\ \A n \in 1..Len(blocks) :
              LET b == blocks[n]
              IN  /\ b # <<>>
                  /\ Cardinality(Range(BlockMarkers(b))) = Len(b)
                  /\ Len(b) > 1 => Range(BlockMarkers(b)) \subseteq aligned_fields
        /\ \A n \in 1..gpos :
              pairs[n].mkr \notin aligned_fields =>
                  \E k \in 1..Len(blocks) : blocks[k] = <<pairs[n]>>

\* \t and \m aligned: \t \m is one block, the second \t closes it and the
\* unaligned \f is a block of its own -- here with \t \m \t
C18_Witness ==
    /\ gstatus = "done"
    /\ aligned_fields = {T, M, G}
    /\ Len(pairs) = 3
    /\ pairs[1].mkr = T /\ pairs[2].mkr = M /\ pairs[3].mkr = T
    /\ blocks = <<SubSeq(pairs, 1, 2), SubSeq(pairs, 3, 3)>>

-----------------------------------------------------------------------------
(* normalize_record(pairs, aligned_fields, strip) on its own *)

NormMarkers == {T, M, F}

\* field values: absent, one character, and two characters with a
\* trailing blank
NormValues == {None, Some(<<"x">>), Some(<<"x", "x", SP>>)}

InitNorm ==
    /\ ScanIdle
    /\ AlignIdle
    /\ IterIdle
    /\ RecIdle
    /\ GroupIdle
    /\ \E n \in 0..MaxPairs : \E ms \in [1..n -> NormMarkers] : \E vs \in [1..n -> NormValues] :
          pairs = [k \in 1..n |-> Pair(ms[k], vs[k])]
    /\ aligned_fields \in {{T, M}, {T}}
    /\ nstrip \in BOOLEAN
    /\ npos = 0
    /\ field_data = <<>>
    /\ maxlens = <<>>
    /\ slot = None
    /\ normalized = <<>>
    /\ nstatus = "running"

NextNorm == NormPair \/ NormReturn

SpecNorm == InitNorm /\ [][NextNorm]_vars

\* normalizing the list returned gives the list returned
Idempotent == normalize_record(normalized, aligned_fields, nstrip) = normalized

\* C11 (as claimed): with either strip setting, normalizing the result of
\* normalize_record again, with the same aligned set and strip setting,
\* returns it unchanged.
C11_Idempotent == nstatus = "returned" => Idempotent

\* C11 (amended): the same, with strip=True.
C11_IdempotentStripped == nstatus = "returned" /\ nstrip => Idempotent

\* two wrapped \t lines and one \m line, stripped: \m is shorter than \t in
\* the result, and normalizing again pads and strips it back
C11_Witness ==
    /\ nstatus = "returned"
    /\ nstrip
    /\ aligned_fields = {T, M}
    /\ pairs = <<Pair(T, Some(<<"x">>)), Pair(T, Some(<<"x">>)), Pair(M, Some(<<"x", "x", SP>>))>>
    /\ normalized = <<Pair(T, Some(<<"x", SP, SP, SP, "x">>)), Pair(M, Some(<<"x", "x">>))>>

\* the number of pairs before pair n with the marker of pair n: the
\* 0-based occurrence index of pair n
OccurrenceIndex(n) == Cardinality({j \in 1..(n - 1) : pairs[j].mkr = pairs[n].mkr})

\* C15 (as claimed): a None value keeps its positional slot: a later value
\* of the same marker is placed at its own occurrence index, where it is
\* measured for the padding and joined, and does not shift down.
C15_NoneKeepsSlot ==
    nstatus = "running" /\ npos >= 1 /\ ~IsNone(pairs[npos].val) =>
        slot = Some(OccurrenceIndex(npos))

-----------------------------------------------------------------------------
(* align_fields without alignments *)

\* the entry list the docstring gives a field when there are no alignments
Untokenized(val) ==
    IF IsNone(val) THEN <<Entry(None, None)>> ELSE <<Entry(None, Some(<<Get(val)>>))>>

\* C13 (as claimed): align_fields called with alignments=None does not
\* fail; it returns every field with content as the single entry
\* (None, [value]) and every field without content as (None, None).
C13_NoneAlignmentsAccepted ==
    IsNone(alignments) /\ astatus \in {"running", "returned", "raised"} =>
        /\ astatus # "raised"
        /\ astatus = "returned" =>
              aligned_pairs = [i \in 1..Len(pairs) |->
                                  [mkr |-> pairs[i].mkr, ents |-> Untokenized(pairs[i].val)]]

-----------------------------------------------------------------------------
(* Context markers outside the hierarchy *)

\* C14: a Key event for a tracked context marker that is not in the
\* hierarchy sets that marker's context value and changes no other: every
\* hierarchy marker and every other context marker keeps its value.
C14_ContextKeyFrame ==
    [][\A m \in context_keys \ Range(record_marker.v) :
          KeyStep(m) =>
              LET old == heap[ContextRef]
                  new == heap'[ContextRef]
              IN  /\ new[m] = events[taken + 1].result.val
                  /\ \A k \in (DOMAIN old) \ {m} : new[k] = old[k]]_vars

\* hierarchy [\id, \ref] with \page tracked: \id and \ref were set, then
\* the Key event of \page was consumed
C14_Witness ==
    /\ record_marker = SeqArg(<<ID, REF>>)
    /\ context_keys = {PAGE}
    /\ Len(pairs) = 3
    /\ pairs[1].mkr = ID /\ pairs[2].mkr = REF /\ pairs[3].mkr = PAGE
    /\ taken = 3
    /\ heap[ContextRef][ID] = Some(1)
    /\ heap[ContextRef][REF] = Some(2)
    /\ heap[ContextRef][PAGE] = Some(3)

-----------------------------------------------------------------------------
(* Order of the events of iterparse *)

\* the pairs an event stands for, block markers back in the form they had
\* in the input
Restored(e) ==
    IF e.event = "data" THEN e.result
    ELSE IF e.event = "key" THEN <<e.result>>
    ELSE IF e.event = "start" THEN <<Pair(Variant(e.result.mkr, "+"), e.result.val)>>
    ELSE <<Pair(Variant(e.result.mkr, "-"), e.result.val)>>

RECURSIVE Flattened(_)
Flattened(es) == IF es = <<>> THEN <<>> ELSE Restored(Head(es)) \o Flattened(Tail(es))

\* C17: the events emitted so far, flattened in emission order with block
\* markers restored, followed by the batch still held, are exactly the
\* pairs consumed so far; once iterparse ends they are the whole input;
\* every Start and End event carries a marker of the key set.
C17_OrderPreserved ==
    istatus \in {"running", "done"} =>
        /\ IF istatus = "done"
           THEN Flattened(events) = pairs
           ELSE Flattened(events) \o data = SubSeq(pairs, 1, ipos)
        /\ \A k \in 1..Len(events) :
              events[k].event \in {"start", "end"} => events[k].result.mkr \in keys

\* an input with a block start, a data pair and a block end, parsed to the end
C17_Witness ==
    /\ istatus = "done"
    /\ keys = {ID, REF}
    /\ Len(pairs) = 3
    /\ pairs[1].mkr = StartID /\ pairs[2].mkr = T /\ pairs[3].mkr = EndREF
    /\ Len(events) = 3
    /\ events[1].event = "start" /\ events[2].event = "data" /\ events[3].event = "end"

-----------------------------------------------------------------------------
(* Entries of an aligned source field *)

RECURSIVE Groups(_)
\* the groups of the entries, concatenated in order
Groups(ents) == IF ents = <<>> THEN <<>> ELSE Get(Head(ents).src) \o Groups(Tail(ents))

\* the target texts of the entries, in order
Targets(ents) == [j \in 1..Len(ents) |-> ents[j].tgt]

\* the texts of the tokens toks as entry targets
AsTargets(toks) == [j \in 1..Len(toks) |-> Some(RStrip(toks[j].text))]

\* C19 (as claimed): an aligned source field has one entry per token of the
\* recorded target tokenization, in the target's order, and its groups
\* concatenated in order are the tokens of the source field in their order.
C19_OneEntryPerTargetToken ==
    \A k \in 1..Len(aligned_pairs) :
        IsSourceField(emitIdx[k]) =>
            LET i == emitIdx[k]
                ents == aligned_pairs[k].ents
            IN  /\ Targets(ents) = AsTargets(TargetTokens(i))
                /\ Groups(ents) = TokTexts(Tokenize(Get(pairs[i].val)))

-----------------------------------------------------------------------------
(* The tokenization a source field is aligned against *)

\* the indices up to i whose pair is a field of marker m, with or without content
AllOccurrences(m, i) == {j \in 1..i : pairs[j].mkr = m}

\* the tokenization of the latest occurrence with content of m up to i
LatestTokens(m, i) ==
    IF Occurrences(m, i) = {} THEN None
    ELSE Some(Tokenize(Get(pairs[Max(Occurrences(m, i))].val)))

\* C20 (as claimed): a source field is aligned against the latest preceding
\* occurrence of its target marker, a None-valued occurrence included: it
\* is never aligned against an older occurrence than the latest one.
C20_LatestOccurrence ==
    \A k \in 1..Len(aligned_pairs) :
        IsSourceField(emitIdx[k]) =>
            LET i == emitIdx[k]
                j == Max(AllOccurrences(Al[pairs[i].mkr], i))
            IN  /\ ~IsNone(pairs[j].val)
                /\ Targets(aligned_pairs[k].ents) = AsTargets(Tokenize(Get(pairs[j].val)))

\* C20 (amended): the tokenization recorded for an aligned marker is that
\* of its latest preceding occurrence with content; an occurrence whose
\* value is None records nothing, and a source field is aligned against
\* the latest preceding occurrence with content of its target.
C20_LatestContentOccurrence ==
    astatus \in {"running", "returned", "raised"} /\ ~IsNone(alignments) =>
        /\ \A m \in AlignedFields(Al) : prev[m] = LatestTokens(m, apos)
        /\ \A k \in 1..Len(aligned_pairs) :
              IsSourceField(emitIdx[k]) =>
                  Targets(aligned_pairs[k].ents) = AsTargets(TargetTokens(emitIdx[k]))

\* \t with content, \t again with other content, then \m aligned against
\* the second \t
C20_Witness ==
    /\ astatus = "returned"
    /\ ~IsNone(alignments)
    /\ Len(pairs) = 3
    /\ pairs[1] = Pair(T, Some(<<"x", SP, "x">>))
    /\ pairs[2] = Pair(T, Some(<<"x">>))
    /\ pairs[3] = Pair(M, Some(<<"x">>))
    /\ Len(aligned_pairs) = 3
    /\ aligned_pairs[3].ents = <<Entry(Some(<<"x">>), Some(<<<<"x">>>>))>>

-----------------------------------------------------------------------------
(* The program as a whole: any one of the entry points is called *)

Init == InitAlign \/ InitPipe \/ InitScan \/ InitIter \/ InitRecords \/ InitGroups \/ InitNorm

Next ==
    \/ ScanLine \/ ScanEnd
    \/ IterPair \/ IterEnd
    \/ RecStart \/ RecEvent \/ RecDone
    \/ AlignStart \/ AlignField \/ AlignReturn
    \/ GroupPair \/ GroupEnd
    \/ NormPair \/ NormReturn

Spec == Init /\ [][Next]_vars

=============================================================================
